---- MODULE Spec2Model ----
(***************************************************************************)
(* Ghana News Aggregator: the RSS ingestion bot (backend/rss_scraper.py)   *)
(* and the REST facade routes that touch the same store (backend/main.py). *)
(*                                                                         *)
(* Text is a sequence of one-character strings.  Timestamps are seconds.   *)
(* Hours and scores are fixed-point numbers, in hundredths.                 *)
(***************************************************************************)
EXTENDS Integers, Sequences, FiniteSets, TLC

\* ------------------------------------------------------------------------
\* Bounds of the model
\* ------------------------------------------------------------------------
\* number of configured sources modelled (RSS_FEEDS has 8, all handled alike)
NumFeeds == 2
\* number of POST /api/scrape worker threads that may be alive at once
MaxApi == 1
\* rows the store may hold
MaxArticles == 3
\* GET /api/articles/{id} and POST /api/articles/{id}/share requests made
MaxReq == 2
\* last instant of the clock, in seconds
MaxNow == 4200

\* ------------------------------------------------------------------------
\* Strings: str.strip(), str.lower(), "kw in text"
\* ------------------------------------------------------------------------
NONE == "none"

Whitespace == {" ", "\t", "\n"}

UpperToLower ==
  "A" :> "a" @@ "B" :> "b" @@ "C" :> "c" @@ "D" :> "d" @@ "E" :> "e" @@
  "F" :> "f" @@ "G" :> "g" @@ "H" :> "h" @@ "I" :> "i" @@ "J" :> "j" @@
  "K" :> "k" @@ "L" :> "l" @@ "M" :> "m" @@ "N" :> "n" @@ "O" :> "o" @@
  "P" :> "p" @@ "Q" :> "q" @@ "R" :> "r" @@ "S" :> "s" @@ "T" :> "t" @@
  "U" :> "u" @@ "V" :> "v" @@ "W" :> "w" @@ "X" :> "x" @@ "Y" :> "y" @@
  "Z" :> "z"

LowerChar(c) == IF c \in DOMAIN UpperToLower THEN UpperToLower[c] ELSE c

lower(s) == [i \in 1..Len(s) |-> LowerChar(s[i])]

RECURSIVE lstrip(_)
lstrip(s) ==
  IF s = <<>> THEN <<>>
  ELSE IF Head(s) \in Whitespace THEN lstrip(Tail(s)) ELSE s

RECURSIVE rstrip(_)
rstrip(s) ==
  IF s = <<>> THEN <<>>
  ELSE IF s[Len(s)] \in Whitespace THEN rstrip(SubSeq(s, 1, Len(s) - 1)) ELSE s

strip(s) == rstrip(lstrip(s))

\* Python's `kw in text` on strings: kw occurs as a contiguous substring
Contains(kw, text) ==
  \E i \in 0..(Len(text) - Len(kw)) : SubSeq(text, i + 1, i + Len(kw)) = kw

\* ------------------------------------------------------------------------
\* Categorization
\* ------------------------------------------------------------------------
\* declaration order of the keys of CATEGORIES (dict iteration order)
CategoryOrder ==
  <<"politics", "business", "sports", "tech", "health", "entertainment", "world">>

CATEGORIES ==
  [
   politics |->
    [strong |-> <<
        <<"e","l","e","c","t","i","o","n">>, <<"p","a","r","l","i","a","m","e","n","t">>,
        <<"p","r","e","s","i","d","e","n","t">>,
        <<"p","r","i","m","e"," ","m","i","n","i","s","t","e","r">>,
        <<"g","o","v","e","r","n","m","e","n","t">>, <<"m","i","n","i","s","t","e","r">>,
        <<"n","d","c">>, <<"n","p","p">>, <<"s","e","n","a","t","o","r">>,
        <<"a","k","u","f","o","-","a","d","d","o">>, <<"m","a","h","a","m","a">>,
        <<"b","a","l","l","o","t">>, <<"c","o","n","s","t","i","t","u","e","n","c","y">>,
        <<"l","a","w","m","a","k","e","r">>, <<"l","e","g","i","s","l","a","t","u","r","e">>,
        <<"c","o","u","p">>, <<"c","a","b","i","n","e","t">>, <<"p","o","l","i","c","y">>,
        <<"r","e","f","e","r","e","n","d","u","m">>, <<"d","e","m","o","c","r","a","t","i","c">>,
        <<"o","p","p","o","s","i","t","i","o","n">>,
        <<"r","u","l","i","n","g"," ","p","a","r","t","y">>, <<"m","p"," ">>, <<"m","p","s"," ">>,
        <<"m","e","m","b","e","r"," ","o","f"," ","p","a","r","l","i","a","m","e","n","t">>,
        <<"s","p","e","a","k","e","r"," ","o","f"," ","p","a","r","l","i","a","m","e","n","t">>,
        <<"a","t","t","o","r","n","e","y"," ","g","e","n","e","r","a","l">>,
        <<"p","o","l","i","t","i","c","a","l">>,
        <<"p","e","t","i","t","i","o","n"," ","m","a","h","a","m","a">>,
        <<"p","e","t","i","t","i","o","n"," ","a","k","u","f","o">>
      >>,
     weak |-> <<
        <<"v","o","t","e">>, <<"c","a","m","p","a","i","g","n">>,
        <<"g","o","v","e","r","n","a","n","c","e">>, <<"r","e","g","u","l","a","t","i","o","n">>,
        <<"l","a","w">>, <<"b","i","l","l"," ","p","a","s","s","e","d">>,
        <<"c","o","r","r","u","p","t","i","o","n">>,
        <<"a","c","c","o","u","n","t","a","b","i","l","i","t","y">>,
        <<"p","r","o","t","e","s","t">>, <<"d","e","m","o","n","s","t","r","a","t","i","o","n">>,
        <<"j","u","d","i","c","i","a","r","y">>
      >>],
   business |->
    [strong |-> <<
        <<"e","c","o","n","o","m","y">>, <<"c","e","d","i">>,
        <<"g","h","a","n","a"," ","s","t","o","c","k"," ","e","x","c","h","a","n","g","e">>,
        <<"g","s","e">>, <<"i","n","v","e","s","t","m","e","n","t">>, <<"g","d","p">>,
        <<"i","n","f","l","a","t","i","o","n">>,
        <<"b","a","n","k"," ","o","f"," ","g","h","a","n","a">>, <<"i","m","f">>,
        <<"w","o","r","l","d"," ","b","a","n","k">>, <<"t","r","a","d","e">>,
        <<"r","e","v","e","n","u","e">>, <<"t","a","x">>, <<"f","i","s","c","a","l">>,
        <<"m","o","n","e","t","a","r","y">>,
        <<"i","n","t","e","r","e","s","t"," ","r","a","t","e">>, <<"s","t","o","c","k">>,
        <<"b","o","n","d">>, <<"f","i","n","a","n","c","e"," ","m","i","n","i","s","t","e","r">>,
        <<"b","u","d","g","e","t">>, <<"d","e","b","t">>, <<"f","o","r","e","x">>,
        <<"e","x","p","o","r","t">>, <<"i","m","p","o","r","t">>,
        <<"c","o","c","o","a"," ","b","o","a","r","d">>,
        <<"g","h","a","n","a"," ","c","o","c","o","a">>,
        <<"t","r","a","d","e"," ","s","u","r","p","l","u","s">>,
        <<"t","r","a","d","e"," ","d","e","f","i","c","i","t">>,
        <<"e","n","t","r","e","p","r","e","n","e","u","r">>,
        <<"s","t","a","r","t","u","p"," ","f","u","n","d","i","n","g">>,
        <<"s","e","r","i","e","s"," ","a">>, <<"s","e","r","i","e","s"," ","b">>, <<"i","p","o">>
      >>,
     weak |-> <<
        <<"b","u","s","i","n","e","s","s">>, <<"m","a","r","k","e","t">>,
        <<"p","r","o","f","i","t">>, <<"l","o","s","s">>, <<"r","e","v","e","n","u","e">>,
        <<"g","r","o","w","t","h">>, <<"e","c","o","n","o","m","i","c">>,
        <<"f","i","n","a","n","c","i","a","l">>, <<"q","u","a","r","t","e","r">>,
        <<"a","n","n","u","a","l">>, <<"b","i","l","l","i","o","n">>,
        <<"m","i","l","l","i","o","n">>, <<"f","u","n","d">>, <<"d","o","n","a","t","i","o","n">>,
        <<"i","n","v","e","s","t","m","e","n","t"," ","d","r","i","v","e">>
      >>],
   sports |->
    [strong |-> <<
        <<"b","l","a","c","k"," ","s","t","a","r","s">>,
        <<"g","h","a","n","a"," ","f","o","o","t","b","a","l","l">>, <<"g","f","a">>,
        <<"p","r","e","m","i","e","r"," ","l","e","a","g","u","e"," ","g","h","a","n","a">>,
        <<"a","f","c","o","n">>, <<"w","o","r","l","d"," ","c","u","p">>,
        <<"o","l","y","m","p","i","c","s">>,
        <<"c","o","m","m","o","n","w","e","a","l","t","h"," ","g","a","m","e","s">>,
        <<"a","s","a","n","t","e"," ","k","o","t","o","k","o">>,
        <<"h","e","a","r","t","s"," ","o","f"," ","o","a","k">>,
        <<"a","c","c","r","a"," ","l","i","o","n","s">>, <<"a","t","h","l","e","t","i","c","s">>,
        <<"m","a","r","a","t","h","o","n">>, <<"b","o","x","i","n","g">>,
        <<"w","r","e","s","t","l","i","n","g">>, <<"s","w","i","m","m","i","n","g">>,
        <<"c","r","i","c","k","e","t">>, <<"r","u","g","b","y">>,
        <<"b","a","s","k","e","t","b","a","l","l">>, <<"t","e","n","n","i","s">>,
        <<"v","o","l","l","e","y","b","a","l","l">>, <<"t","r","a","n","s","f","e","r">>,
        <<"s","i","g","n","e","d">>, <<"m","a","n","a","g","e","r"," ","s","a","c","k","e","d">>,
        <<"c","o","a","c","h"," ","a","p","p","o","i","n","t","e","d">>, <<"g","o","a","l">>,
        <<"m","a","t","c","h">>, <<"t","o","u","r","n","a","m","e","n","t">>,
        <<"c","h","a","m","p","i","o","n">>, <<"t","r","o","p","h","y">>, <<"f","i","f","a">>,
        <<"c","a","f"," ">>, <<"u","e","f","a">>
      >>,
     weak |-> <<
        <<"s","p","o","r","t","s">>, <<"f","o","o","t","b","a","l","l">>,
        <<"s","o","c","c","e","r">>, <<"l","e","a","g","u","e">>, <<"c","l","u","b">>,
        <<"p","l","a","y","e","r">>, <<"t","e","a","m">>, <<"s","c","o","r","e">>,
        <<"f","i","x","t","u","r","e">>, <<"s","q","u","a","d">>, <<"g","a","m","e">>,
        <<"d","e","f","e","a","t">>, <<"w","i","n">>, <<"d","r","a","w">>
      >>],
   tech |->
    [strong |-> <<
        <<"a","r","t","i","f","i","c","i","a","l"," ","i","n","t","e","l","l","i","g","e","n","c","e">>,
        <<" ","a","i"," ">>, <<"m","a","c","h","i","n","e"," ","l","e","a","r","n","i","n","g">>,
        <<"b","l","o","c","k","c","h","a","i","n">>,
        <<"c","r","y","p","t","o","c","u","r","r","e","n","c","y">>,
        <<"b","i","t","c","o","i","n">>, <<"f","i","n","t","e","c","h">>,
        <<"c","y","b","e","r","s","e","c","u","r","i","t","y">>,
        <<"d","a","t","a"," ","b","r","e","a","c","h">>, <<"5","g">>,
        <<"s","o","f","t","w","a","r","e"," ","l","a","u","n","c","h">>,
        <<"a","p","p"," ","l","a","u","n","c","h">>,
        <<"t","e","c","h"," ","s","t","a","r","t","u","p">>, <<"g","o","o","g","l","e">>,
        <<"a","p","p","l","e"," ">>, <<"m","i","c","r","o","s","o","f","t">>,
        <<"m","e","t","a"," ">>, <<"a","m","a","z","o","n"," ","w","e","b">>,
        <<"c","l","o","u","d"," ","c","o","m","p","u","t","i","n","g">>,
        <<"r","o","b","o","t","i","c","s">>, <<"d","r","o","n","e">>,
        <<"s","a","t","e","l","l","i","t","e">>, <<"p","r","o","g","r","a","m","m","i","n","g">>,
        <<"d","e","v","e","l","o","p","e","r">>, <<"o","p","e","n"," ","s","o","u","r","c","e">>,
        <<"s","i","l","i","c","o","n">>, <<"s","e","m","i","c","o","n","d","u","c","t","o","r">>,
        <<"d","a","t","a"," ","c","e","n","t","r","e">>, <<"i","s","o","/","i","e","c">>
      >>,
     weak |-> <<
        <<"t","e","c","h","n","o","l","o","g","y">>, <<"d","i","g","i","t","a","l">>,
        <<"m","o","b","i","l","e">>, <<"i","n","t","e","r","n","e","t">>,
        <<"i","n","n","o","v","a","t","i","o","n">>, <<"p","l","a","t","f","o","r","m">>,
        <<"o","n","l","i","n","e">>, <<"w","e","b","s","i","t","e">>, <<"c","y","b","e","r">>,
        <<"s","o","f","t","w","a","r","e">>
      >>],
   health |->
    [strong |-> <<
        <<"h","o","s","p","i","t","a","l">>, <<"d","i","s","e","a","s","e">>,
        <<"c","o","v","i","d">>, <<"m","a","l","a","r","i","a">>, <<"c","l","i","n","i","c">>,
        <<"v","a","c","c","i","n","e">>, <<"o","u","t","b","r","e","a","k">>,
        <<"e","p","i","d","e","m","i","c">>, <<"p","a","n","d","e","m","i","c">>,
        <<"s","u","r","g","e","r","y">>, <<"d","i","a","g","n","o","s","i","s">>,
        <<"t","r","e","a","t","m","e","n","t">>, <<"m","e","d","i","c","i","n","e">>,
        <<"d","o","c","t","o","r">>, <<"n","u","r","s","e">>, <<"p","a","t","i","e","n","t">>,
        <<"g","h","a","n","a"," ","h","e","a","l","t","h"," ","s","e","r","v","i","c","e">>,
        <<"m","i","n","i","s","t","r","y"," ","o","f"," ","h","e","a","l","t","h">>,
        <<"w","h","o"," ">>, <<"w","o","r","l","d"," ","h","e","a","l","t","h">>,
        <<"n","h","i","s">>, <<"n","a","t","i","o","n","a","l"," ","h","e","a","l","t","h">>,
        <<"p","u","b","l","i","c"," ","h","e","a","l","t","h">>,
        <<"m","o","r","t","a","l","i","t","y">>, <<"h","i","v">>, <<"a","i","d","s">>,
        <<"t","u","b","e","r","c","u","l","o","s","i","s">>, <<"c","a","n","c","e","r">>,
        <<"d","i","a","b","e","t","e","s">>,
        <<"m","e","n","t","a","l"," ","h","e","a","l","t","h">>,
        <<"a","m","b","u","l","a","n","c","e">>,
        <<"e","m","e","r","g","e","n","c","y"," ","c","a","r","e">>, <<"n","o"," ","b","e","d">>,
        <<"d","i","a","l","y","s","i","s">>, <<"h","p","v">>,
        <<"i","m","m","u","n","i","z","a","t","i","o","n">>,
        <<"v","a","c","c","i","n","a","t","i","o","n"," ","p","r","o","g","r","a","m","m","e">>
      >>,
     weak |-> <<
        <<"h","e","a","l","t","h">>, <<"m","e","d","i","c","a","l">>,
        <<"w","e","l","l","n","e","s","s">>, <<"n","u","t","r","i","t","i","o","n">>,
        <<"d","r","u","g">>, <<"p","h","a","r","m","a","c","y">>,
        <<"r","e","s","e","a","r","c","h">>, <<"c","l","i","n","i","c","a","l">>,
        <<"t","h","e","r","a","p","y">>
      >>],
   entertainment |->
    [strong |-> <<
        <<"m","u","s","i","c"," ","v","i","d","e","o">>, <<"a","l","b","u","m">>,
        <<"c","o","n","c","e","r","t">>, <<"a","w","a","r","d"," ","s","h","o","w">>,
        <<"g","r","a","m","m","y">>,
        <<"g","h","a","n","a"," ","m","u","s","i","c"," ","a","w","a","r","d","s">>,
        <<"v","g","m","a">>, <<"a","f","r","o","b","e","a","t","s">>,
        <<"h","i","p","l","i","f","e">>, <<"h","i","g","h","l","i","f","e">>,
        <<"m","o","v","i","e">>, <<"f","i","l","m">>, <<"n","o","l","l","y","w","o","o","d">>,
        <<"a","c","t","o","r">>, <<"a","c","t","r","e","s","s">>,
        <<"c","e","l","e","b","r","i","t","y">>,
        <<"f","a","s","h","i","o","n"," ","w","e","e","k">>, <<"r","u","n","w","a","y">>,
        <<"r","e","a","l","i","t","y"," ","s","h","o","w">>,
        <<"t","v"," ","s","e","r","i","e","s">>,
        <<"s","p","o","t","i","f","y"," ","g","h","a","n","a">>, <<"y","o","u","t","u","b","e">>,
        <<"b","l","a","c","k"," ","s","h","e","r","i","f">>, <<"s","a","r","k","o","d","i","e">>,
        <<"s","t","o","n","e","b","w","o","y">>,
        <<"k","u","a","m","i"," ","e","u","g","e","n","e">>,
        <<"s","h","a","t","t","a"," ","w","a","l","e">>, <<"m","e","d","i","k","a","l">>
      >>,
     weak |-> <<
        <<"e","n","t","e","r","t","a","i","n","m","e","n","t">>, <<"m","u","s","i","c">>,
        <<"a","r","t","s">>, <<"c","u","l","t","u","r","e">>, <<"f","e","s","t","i","v","a","l">>,
        <<"p","e","r","f","o","r","m","a","n","c","e">>, <<"t","o","u","r">>,
        <<"r","e","l","e","a","s","e">>, <<"s","i","n","g","l","e">>, <<"f","a","n">>
      >>],
   world |->
    [strong |-> <<
        <<"u","n","i","t","e","d"," ","n","a","t","i","o","n","s">>,
        <<"u","n"," ","s","e","c","u","r","i","t","y"," ","c","o","u","n","c","i","l">>,
        <<"n","a","t","o">>, <<"e","u","r","o","p","e","a","n"," ","u","n","i","o","n">>,
        <<"w","h","i","t","e"," ","h","o","u","s","e">>,
        <<"u","s"," ","p","r","e","s","i","d","e","n","t">>, <<"r","u","s","s","i","a">>,
        <<"u","k","r","a","i","n","e">>, <<"i","s","r","a","e","l">>,
        <<"p","a","l","e","s","t","i","n">>, <<"i","r","a","n">>, <<"c","h","i","n","a"," ">>,
        <<"n","o","r","t","h"," ","k","o","r","e","a">>, <<"t","r","u","m","p">>,
        <<"b","i","d","e","n">>, <<"s","a","n","c","t","i","o","n","s">>,
        <<"t","r","e","a","t","y">>, <<"d","i","p","l","o","m","a","c","y">>,
        <<"f","o","r","e","i","g","n"," ","m","i","n","i","s","t","e","r">>, <<"g","7">>,
        <<"g","2","0">>, <<"i","m","f"," ">>, <<"w","o","r","l","d"," ","b","a","n","k">>,
        <<"r","e","f","u","g","e","e">>, <<"w","a","r"," ","c","r","i","m","e","s">>,
        <<"c","e","a","s","e","f","i","r","e">>,
        <<"m","i","l","i","t","a","r","y"," ","s","t","r","i","k","e">>,
        <<"n","u","c","l","e","a","r">>, <<"c","o","u","p"," ","d","'","e","t","a","t">>,
        <<"a","f","r","i","c","o","m">>, <<"u","n"," ","d","e","l","e","g","a","t","e","s">>
      >>,
     weak |-> <<
        <<"i","n","t","e","r","n","a","t","i","o","n","a","l">>, <<"g","l","o","b","a","l">>,
        <<"w","o","r","l","d">>, <<"u","s","a">>, <<"e","u","r","o","p","e">>,
        <<"w","a","s","h","i","n","g","t","o","n">>, <<"l","o","n","d","o","n">>,
        <<"p","a","r","i","s">>, <<"b","e","i","j","i","n","g">>,
        <<"o","v","e","r","s","e","a","s">>
      >>]
  ]

MIN_SCORE_THRESHOLD == 2

RECURSIVE SumHits(_, _, _)
SumHits(kws, text, points) ==
  IF kws = <<>> THEN 0
  ELSE (IF Contains(Head(kws), text) THEN points ELSE 0)
       + SumHits(Tail(kws), text, points)

category_score(category, text) ==
  SumHits(CATEGORIES[category].strong, text, 3)
  + SumHits(CATEGORIES[category].weak, text, 1)

\* a maximum that keeps the last key with the largest value
best_category_last(text) ==
  LET idx == DOMAIN CategoryOrder
      scores == [i \in idx |-> category_score(CategoryOrder[i], text)]
      last == CHOOSE i \in idx :
                /\ \A j \in idx : scores[j] <= scores[i]
                /\ \A j \in idx : j > i => scores[j] < scores[i]
  IN CategoryOrder[last]

\* max(scores, key=scores.get): the first key, in iteration order, whose
\* value is the maximum
best_category(text) ==
  LET idx == DOMAIN CategoryOrder
      scores == [i \in idx |-> category_score(CategoryOrder[i], text)]
      first == CHOOSE i \in idx :
                 /\ \A j \in idx : scores[j] <= scores[i]
                 /\ \A j \in idx : j < i => scores[j] < scores[i]
  IN CategoryOrder[first]

\* categorize_article without the threshold
categorize_article_unthresholded(title, summary) ==
  best_category(lower(title \o <<" ">> \o summary))

categorize_article(title, summary) ==
  LET text == lower(title \o <<" ">> \o summary)
      best_cat == best_category(text)
  IN IF category_score(best_cat, text) < MIN_SCORE_THRESHOLD
     THEN "general"
     ELSE best_cat

\* ------------------------------------------------------------------------
\* Trending score (fixed point: hours and scores in hundredths)
\* ------------------------------------------------------------------------
Max(a, b) == IF a >= b THEN a ELSE b

\* hours_old = max(elapsed seconds / 3600, 0.01), in hundredths of an hour
hours_old(nowSecs, publishedSecs) ==
  Max(((nowSecs - publishedSecs) * 100) \div 3600, 1)

\* trending_score without the clamp of the age at 0.1 hours
trending_score_unclamped(views, shares, hours100) ==
  60 * views + 30 * shares + (10 * 100) \div hours100

\* 0.6*views + 0.3*shares + 0.1 * (1 / max(hours_old, 0.1))
trending_score(views, shares, hours100) ==
  60 * views + 30 * shares + (10 * 100) \div Max(hours100, 10)

\* ------------------------------------------------------------------------
\* Image extraction
\* ------------------------------------------------------------------------
\* position of the first occurrence of pat in s at or after from; 0 if none
FindFrom(pat, s, from) ==
  LET hits == { i \in from..(Len(s) - Len(pat) + 1) :
                  SubSeq(s, i, i + Len(pat) - 1) = pat }
  IN IF hits = {} THEN 0 ELSE CHOOSE i \in hits : \A j \in hits : i <= j

\* soup.find("img") and img.get("src"): the src attribute of the first img
\* element, as <<src>>, or <<>> when there is no img or it has no src
first_img_src(html) ==
  LET open == FindFrom(<<"<","i","m","g">>, html, 1)
      close == IF open = 0 THEN 0 ELSE FindFrom(<<">">>, html, open)
      tag == IF close = 0 THEN <<>> ELSE SubSeq(html, open, close - 1)
      attr == FindFrom(<<"s","r","c","=","\"">>, tag, 1)
      quote == IF attr = 0 THEN 0 ELSE FindFrom(<<"\"">>, tag, attr + 5)
  IN IF quote = 0 THEN <<>> ELSE <<SubSeq(tag, attr + 5, quote - 1)>>

\* a.get(k) or b.get(k'): the first of the two that is present and not empty
OrElse(a, b) == IF a /= <<>> /\ a[1] /= <<>> THEN a ELSE b

\* line 193-205
extract_image(entry) ==
  LET images == { i \in DOMAIN entry.enclosures :
                    Contains(<<"i","m","a","g","e">>, entry.enclosures[i].type) }
      enc == entry.enclosures[CHOOSE i \in images : \A j \in images : i <= j]
      src == first_img_src(entry.summary)
  IN IF entry.media_content /= <<>> THEN entry.media_content[1].url
     ELSE IF images /= {} THEN OrElse(enc.href, enc.url)
     ELSE IF src /= <<>> /\ src[1] /= <<>> THEN src
     ELSE <<>>

\* ------------------------------------------------------------------------
\* Affiliate links
\* ------------------------------------------------------------------------
AFFILIATE_TRIGGERS ==
  << [trigger |-> <<"i","p","h","o","n","e">>,     url |-> "https://amzn.to/ghana-iphone"],
     [trigger |-> <<"s","a","m","s","u","n","g">>, url |-> "https://amzn.to/ghana-samsung"],
     [trigger |-> <<"l","a","p","t","o","p">>,     url |-> "https://amzn.to/ghana-laptop"],
     [trigger |-> <<"t","i","c","k","e","t","s">>, url |-> "https://www.eventbrite.com/?aff=ghana_news"],
     [trigger |-> <<"b","o","o","k">>,             url |-> "https://amzn.to/ghana-books"],
     [trigger |-> <<"j","u","m","i","a">>,
      url |-> "https://www.jumia.com.gh/?utm_source=ghananews&utm_medium=affiliate"] >>

\* insert_affiliates matching the text as it is written
insert_affiliates_cased(content) ==
  { <<AFFILIATE_TRIGGERS[i].trigger, AFFILIATE_TRIGGERS[i].url>> :
      i \in { j \in DOMAIN AFFILIATE_TRIGGERS :
                Contains(AFFILIATE_TRIGGERS[j].trigger, content) } }

\* the mapping is represented by its set of (trigger, url) items
insert_affiliates(content) ==
  { <<AFFILIATE_TRIGGERS[i].trigger, AFFILIATE_TRIGGERS[i].url>> :
      i \in { j \in DOMAIN AFFILIATE_TRIGGERS :
                Contains(AFFILIATE_TRIGGERS[j].trigger, lower(content)) } }

\* ------------------------------------------------------------------------
\* Deduplication key
\* ------------------------------------------------------------------------
\* title_hash without the lower-casing
title_hash_cased(title) == strip(title)

\* hashlib.md5(...).hexdigest() is represented by the text it digests (the
\* digest is taken to be collision free); the normalisation is modelled.
title_hash(title) == lower(strip(title))

\* ------------------------------------------------------------------------
\* Configuration and inputs
\* ------------------------------------------------------------------------
RSS_FEEDS ==
  << [name |-> "CitiNews",          region |-> "ghana"],
     [name |-> "JoyOnline",         region |-> "ghana"],
     [name |-> "GhanaWeb",          region |-> "ghana"],
     [name |-> "Graphic Online",    region |-> "ghana"],
     [name |-> "GhanaBusinessNews", region |-> "ghana"],
     [name |-> "BBC Africa",        region |-> "africa"],
     [name |-> "Reuters Africa",    region |-> "africa"],
     [name |-> "Al Jazeera",        region |-> "global"] >>

Sources == 1..NumFeeds

\* feed.entries[:20]
ENTRY_CAP == 20
\* get_text()[:500]
SUMMARY_CAP == 500
\* schedule.every(5).minutes, schedule.every(1).hours, time.sleep(30): seconds
INGEST_EVERY == 300
RESCORE_EVERY == 3600
SLEEP_SECS == 30

\* a slice that keeps the whole list
TakeAll(s, n) == s

Take(s, n) == SubSeq(s, 1, IF Len(s) < n THEN Len(s) ELSE n)

\* BeautifulSoup(html, "html.parser").get_text(): the text outside the tags
RECURSIVE StripTags(_, _)
StripTags(s, inTag) ==
  IF s = <<>> THEN <<>>
  ELSE IF inTag THEN StripTags(Tail(s), Head(s) /= ">")
  ELSE IF Head(s) = "<" THEN StripTags(Tail(s), TRUE)
  ELSE <<Head(s)>> \o StripTags(Tail(s), FALSE)

get_text(html) == StripTags(html, FALSE)

\* A feed entry as feedparser delivers it: title and summary (HTML) as
\* text, published as <<t>> or <<>> when the feed gives no timestamp,
\* media_content as a sequence of [url, type] and enclosures as a sequence of
\* [href, url, type].  An optional value is <<v>>, or <<>> when it is absent.
FeedEntry(title, summary, published, media_content, enclosures) ==
  [title |-> title, summary |-> summary, published |-> published,
   media_content |-> media_content, enclosures |-> enclosures]

\* an entry with a title only
Entry(title, published) == FeedEntry(title, <<>>, published, <<>>, <<>>)

E_NPP   == Entry(<<"N","P","P">>, <<0>>)
E_npp   == Entry(<<" ","n","p","p">>, <<>>)
E_tax   == Entry(<<"t","a","x">>, <<0>>)
E_blank == Entry(<<" ">>, <<>>)

\* the documents a source may serve
FeedDocs ==
  { <<E_NPP>>, <<E_npp, E_tax>>, <<E_blank, E_NPP, E_npp>> }

\* a row written by an earlier run of the bot: stale category, and a
\* published_at that datetime.fromisoformat rejects (<<>>)
LegacyArticle ==
  [id |-> 1, title |-> <<"t","a","x">>, title_hash |-> <<"t","a","x">>,
   summary |-> <<>>, image_url |-> <<>>, source |-> "CitiNews", region |-> "ghana",
   category |-> "general", published_at |-> <<>>, views |-> 0, shares |-> 0,
   trending_score |-> 0, affiliates |-> {}]

\* entries with text for the categoriser and the affiliate triggers, with
\* attachments for the image extraction, and published at different instants
\* before the start of the bot (seconds, the bot starts at 0)
E_digital ==
  FeedEntry(<<"d","i","g","i","t","a","l">>, <<>>, <<>>, <<>>, <<>>)
E_election ==
  FeedEntry(<<"e","l","e","c","t","i","o","n"," ","p","a","r","l","i","a","m","e","n","t">>,
            <<"<","i","m","g"," ","s","r","c","=","\"","i",".","p","n","g","\"",">">>,
            <<0>>, <<>>,
            << [href |-> << <<"e",".","p","n","g">> >>, url |-> <<>>,
                type |-> <<"i","m","a","g","e","/","p","n","g">>] >>)
E_tie ==
  FeedEntry(<<"h","o","s","p","i","t","a","l"," ","f","i","l","m">>,
            <<"<","i","m","g"," ","s","r","c","=","\"","i",".","p","n","g","\"",">">>,
            <<0 - 180>>, <<>>, <<>>)
E_revenue ==
  FeedEntry(<<"e","l","e","c","t","i","o","n"," ","r","e","v","e","n","u","e">>,
            <<>>, <<0 - 1800>>, <<>>, <<>>)
E_iphone ==
  FeedEntry(<<"i","P","h","o","n","e"," ","1","5"," ","l","a","u","n","c","h">>,
            <<>>, <<0 - 18000>>,
            << [url |-> << <<"v",".","m","p","4">> >>,
                type |-> <<"v","i","d","e","o","/","m","p","4">>] >>,
            <<>>)
E_repeat ==
  FeedEntry(<<"D","i","g","i","t","a","l"," ","d","i","g","i","t","a","l">>,
            <<"<","p",">","d","i","g","i","t","a","l","<","/","p",">">>,
            <<0 - 360>>, <<>>, <<>>)
E_samsung ==
  FeedEntry(<<"S","a","m","s","u","n","g"," ","l","a","p","t","o","p">>,
            <<>>, <<0 - 7200>>,
            << [url |-> << <<"m",".","j","p","g">> >>,
                type |-> <<"i","m","a","g","e","/","j","p","e","g">>] >>,
            <<>>)
E_nourl ==
  FeedEntry(<<"g","o","a","l">>,
            <<"<","i","m","g"," ","s","r","c","=","\"","n",".","p","n","g","\"",">">>,
            <<0>>,
            << [url |-> <<>>, type |-> <<"i","m","a","g","e","/","p","n","g">>] >>,
            <<>>)
E_late == Entry(<<"l","a","t","e"," ","g","o","a","l">>, <<0>>)

\* a document longer than the cap: a story, untitled entries, the story
\* again at position 20, and another story at position 21
LongDoc ==
  <<E_tax>> \o [i \in 1..(ENTRY_CAP - 2) |-> E_blank] \o <<E_tax, E_late>>

\* the documents the two sources serve in SpecIngest
TextDocs ==
  { <<E_digital>>, <<E_election>>, <<E_tie>>, <<E_revenue>>, <<E_iphone>>,
    <<E_repeat>> }
MediaDocs ==
  { <<E_blank, E_samsung>>, <<E_election>>, <<E_nourl>>, LongDoc }

\* a row ingested five hours ago and rescored when it was an hour old, which
\* readers have viewed and shared since
ViewedArticle ==
  [id |-> 1, title |-> <<"b","a","l","l","o","t">>,
   title_hash |-> <<"b","a","l","l","o","t">>,
   summary |-> <<>>, image_url |-> <<>>, source |-> "CitiNews", region |-> "ghana",
   category |-> "politics", published_at |-> <<0 - 18000>>, views |-> 100,
   shares |-> 10, trending_score |-> 6310, affiliates |-> {}]

Bot == 0
ApiThreads == 1..MaxApi
Procs == {Bot} \cup ApiThreads
Reqs == 1..MaxReq

ScrapePcs == {"fetch", "entry", "insert", "hung"}

VARIABLES
  now,        \* wall clock, seconds
  feeds,      \* feeds[s]: the document source s serves at present
  store,      \* the articles table, in insertion order (id = position)
  pc,         \* pc[p]: where process p is inside a job body
  feed_idx,   \* scrape_all_feeds: position in RSS_FEEDS
  entries,    \* scrape_all_feeds: entries of the current feed still to process
  new_count,  \* scrape_all_feeds: new_count
  log,        \* per cycle record of what happened (history)
  primed,     \* a failure-free cycle has completed since the feeds last changed
  rc_list,    \* recategorize_existing: rows still to process
  rs_list,    \* update_trending_scores: rows still to process
  rs_log,     \* per rescoring cycle record of what happened (history)
  sched,      \* position of the bot's main program
  cur_job,    \* run_pending: the job being run
  queue,      \* run_pending: runnable jobs still to run
  next_run,   \* schedule: next_run of each job
  wake,       \* time.sleep(30): instant at which it returns
  req         \* facade requests: not yet made, between read and write, served

vars == <<now, feeds, store, pc, feed_idx, entries, new_count, log, primed,
          rc_list, rs_list, rs_log, sched, cur_job, queue, next_run, wake, req>>

scrapeLocals == <<feed_idx, entries, new_count>>
rescoreVars == <<rc_list, rs_list, rs_log>>
schedVars == <<sched, cur_job, queue, next_run, wake>>

EmptyLog ==
  [attempted |-> {}, failed |-> {}, faulted |-> {}, owed |-> {}, put |-> {},
   clean |-> TRUE, primedAtStart |-> FALSE, startLen |-> 0]

EmptyRsLog == [listed |-> {}, written |-> {}, failed |-> {}]

\* a request not yet made
NewReq == [pc |-> "new", id |-> 0, val |-> 0]

StoredHashes == { store[i].title_hash : i \in DOMAIN store }

InitCommon ==
  /\ now = 0
  /\ pc = [p \in Procs |-> "idle"]
  /\ feed_idx = [p \in Procs |-> 1]
  /\ entries = [p \in Procs |-> <<>>]
  /\ new_count = [p \in Procs |-> 0]
  /\ log = [p \in Procs |-> EmptyLog]
  /\ primed = FALSE
  /\ rc_list = <<>>
  /\ rs_list = <<>>
  /\ rs_log = EmptyRsLog
  /\ sched = "start"
  /\ cur_job = NONE
  /\ queue = <<>>
  /\ next_run = [j \in {"ingest", "rescore"} |-> <<>>]
  /\ wake = 0
  /\ req = [r \in Reqs |-> NewReq]

\* ------------------------------------------------------------------------
\* scrape_all_feeds
\* ------------------------------------------------------------------------
\* line 249-251: entry of the function
BeginScrape(p) ==
  /\ pc' = [pc EXCEPT ![p] = "fetch"]
  /\ feed_idx' = [feed_idx EXCEPT ![p] = 1]
  /\ entries' = [entries EXCEPT ![p] = <<>>]
  /\ new_count' = [new_count EXCEPT ![p] = 0]
  /\ log' = [log EXCEPT ![p] = [EmptyLog EXCEPT !.primedAtStart = primed,
                                                !.startLen = Len(store)]]

\* the outer for loop moves to the next source, or the cycle completes
NextSource(p) ==
  /\ pc' = [pc EXCEPT ![p] = IF feed_idx[p] = NumFeeds THEN "done" ELSE "fetch"]
  /\ feed_idx' = [feed_idx EXCEPT ![p] = @ + 1]
  /\ entries' = [entries EXCEPT ![p] = <<>>]

\* `continue`, or the end of the loop body: the inner for loop moves on
NextEntry(p) ==
  IF Tail(entries[p]) = <<>>
  THEN NextSource(p)
  ELSE /\ pc' = [pc EXCEPT ![p] = "entry"]
       /\ entries' = [entries EXCEPT ![p] = Tail(@)]
       /\ UNCHANGED feed_idx

\* the keys of the entries this cycle has to end up with in the store
OwedBy(s, doc) ==
  { <<s, title_hash(doc[i].title)>> :
      i \in { j \in DOMAIN doc : strip(doc[j].title) /= <<>> } }

\* feedparser.parse returns the document
FetchOk(p) ==
  /\ pc[p] = "fetch"
  /\ LET s == feed_idx[p]
         got == Take(feeds[s], ENTRY_CAP)
     IN /\ log' = [log EXCEPT ![p].attempted = @ \cup {s},
                              ![p].owed = @ \cup OwedBy(s, got)]
        /\ IF got = <<>>
           THEN NextSource(p)
           ELSE /\ pc' = [pc EXCEPT ![p] = "entry"]
                /\ entries' = [entries EXCEPT ![p] = got]
                /\ UNCHANGED feed_idx
  /\ UNCHANGED <<now, feeds, store, new_count, primed, rescoreVars, schedVars, req>>

\* a fetch failure that leaves the loop over the sources
FetchFailsAborts(p) ==
  /\ pc[p] = "fetch"
  /\ log' = [log EXCEPT ![p].attempted = @ \cup {feed_idx[p]},
                        ![p].failed = @ \cup {feed_idx[p]},
                        ![p].clean = FALSE]
  /\ pc' = [pc EXCEPT ![p] = "done"]
  /\ UNCHANGED <<now, feeds, store, scrapeLocals, primed, rescoreVars, schedVars, req>>

\* feedparser.parse raises (network error, unparseable document, socket
\* timeout of the platform): caught by the except of this source
FetchFails(p) ==
  /\ pc[p] = "fetch"
  /\ log' = [log EXCEPT ![p].attempted = @ \cup {feed_idx[p]},
                        ![p].failed = @ \cup {feed_idx[p]},
                        ![p].clean = FALSE]
  /\ NextSource(p)
  /\ UNCHANGED <<now, feeds, store, new_count, primed, rescoreVars, schedVars, req>>

\* feedparser.parse(url) is called without a timeout: on a source that
\* accepts the connection and never answers the call does not return
FetchHangs(p) ==
  /\ pc[p] = "fetch"
  /\ pc' = [pc EXCEPT ![p] = "hung"]
  /\ log' = [log EXCEPT ![p].attempted = @ \cup {feed_idx[p]},
                        ![p].clean = FALSE]
  /\ UNCHANGED <<now, feeds, store, scrapeLocals, primed, rescoreVars, schedVars, req>>

\* line 259-261: empty or missing title
SkipUntitled(p) ==
  /\ pc[p] = "entry"
  /\ strip(Head(entries[p]).title) = <<>>
  /\ NextEntry(p)
  /\ UNCHANGED <<now, feeds, store, new_count, log, primed, rescoreVars, schedVars, req>>

\* already_exists comparing the key with the title column
already_exists_by_title(thash) == \E i \in DOMAIN store : store[i].title = thash

\* already_exists: select id where title_hash = thash
already_exists(thash) == \E i \in DOMAIN store : store[i].title_hash = thash

\* line 263-265: the row exists, `continue`
LookupFound(p) ==
  /\ pc[p] = "entry"
  /\ LET title == strip(Head(entries[p]).title)
     IN /\ title /= <<>>
        /\ already_exists(title_hash(title))
  /\ NextEntry(p)
  /\ UNCHANGED <<now, feeds, store, new_count, log, primed, rescoreVars, schedVars, req>>

\* line 263-265: no such row, go on to build the article
LookupMissing(p) ==
  /\ pc[p] = "entry"
  /\ LET title == strip(Head(entries[p]).title)
     IN /\ title /= <<>>
        /\ ~already_exists(title_hash(title))
  /\ pc' = [pc EXCEPT ![p] = "insert"]
  /\ UNCHANGED <<now, feeds, store, scrapeLocals, log, primed, rescoreVars, schedVars, req>>

\* a store call of this entry raises: the except of line 309 is outside the
\* inner loop, so control leaves the whole source
StoreFault(p) ==
  /\ log' = [log EXCEPT
               ![p].faulted = @ \cup {<<feed_idx[p], title_hash(Head(entries[p]).title)>>},
               ![p].clean = FALSE]
  /\ NextSource(p)

\* line 264: the select of already_exists raises
LookupFails(p) ==
  /\ pc[p] = "entry"
  /\ strip(Head(entries[p]).title) /= <<>>
  /\ StoreFault(p)
  /\ UNCHANGED <<now, feeds, store, new_count, primed, rescoreVars, schedVars, req>>

\* line 267-303: the article built from the entry
BuildArticle(p, e) ==
  LET title == strip(e.title)
      summary == Take(get_text(e.summary), SUMMARY_CAP)
      published_at == IF e.published /= <<>> THEN e.published ELSE <<now>>
  IN [id |-> Len(store) + 1,
      title |-> title,
      title_hash |-> title_hash(title),
      summary |-> summary,
      image_url |-> extract_image(e),
      source |-> RSS_FEEDS[feed_idx[p]].name,
      region |-> RSS_FEEDS[feed_idx[p]].region,
      category |-> categorize_article(title, summary),
      published_at |-> published_at,
      views |-> 0,
      shares |-> 0,
      trending_score |-> trending_score(0, 0, hours_old(now, published_at[1])),
      affiliates |-> insert_affiliates(title \o <<" ">> \o summary)]

\* an insert that writes the whole table back with the counters at zero
InsertOkResetsCounters(p) ==
  /\ pc[p] = "insert"
  /\ Len(store) < MaxArticles
  /\ LET art == BuildArticle(p, Head(entries[p]))
     IN /\ store' = Append([i \in DOMAIN store |->
                              [store[i] EXCEPT !.views = 0, !.shares = 0]], art)
        /\ log' = [log EXCEPT ![p].put = @ \cup {<<feed_idx[p], art.title_hash>>}]
  /\ new_count' = [new_count EXCEPT ![p] = @ + 1]
  /\ NextEntry(p)
  /\ UNCHANGED <<now, feeds, primed, rescoreVars, schedVars, req>>

\* line 305-307: the insert succeeds
InsertOk(p) ==
  /\ pc[p] = "insert"
  /\ Len(store) < MaxArticles
  /\ LET art == BuildArticle(p, Head(entries[p]))
     IN /\ store' = Append(store, art)
        /\ log' = [log EXCEPT ![p].put = @ \cup {<<feed_idx[p], art.title_hash>>}]
  /\ new_count' = [new_count EXCEPT ![p] = @ + 1]
  /\ NextEntry(p)
  /\ UNCHANGED <<now, feeds, primed, rescoreVars, schedVars, req>>

\* line 305: the insert raises (store unavailable, row rejected)
InsertFails(p) ==
  /\ pc[p] = "insert"
  /\ StoreFault(p)
  /\ UNCHANGED <<now, feeds, store, new_count, primed, rescoreVars, schedVars, req>>

\* the source publishes a different document
FeedChange(s) ==
  /\ \E d \in FeedDocs : d /= feeds[s] /\ feeds' = [feeds EXCEPT ![s] = d]
  /\ primed' = FALSE
  /\ log' = [p \in Procs |-> [log[p] EXCEPT !.clean = FALSE, !.primedAtStart = FALSE]]
  /\ UNCHANGED <<now, store, pc, scrapeLocals, rescoreVars, schedVars, req>>

\* ------------------------------------------------------------------------
\* POST /api/scrape (main.py run_scrape): a thread per request
\* ------------------------------------------------------------------------
\* threading.Thread(target=do_scrape).start(): nothing is consulted first
RunScrape(t) ==
  /\ pc[t] = "idle"
  /\ BeginScrape(t)
  /\ UNCHANGED <<now, feeds, store, primed, rescoreVars, schedVars, req>>

\* "Cycle complete" was logged and scrape_all_feeds returned
EndCycle(p) ==
  /\ primed' = log[p].clean
  /\ log' = [log EXCEPT ![p] = EmptyLog]
  /\ feed_idx' = [feed_idx EXCEPT ![p] = 1]
  /\ new_count' = [new_count EXCEPT ![p] = 0]
  /\ UNCHANGED entries

\* do_scrape returns and the thread ends
ThreadExits(t) ==
  /\ pc[t] = "done"
  /\ pc' = [pc EXCEPT ![t] = "idle"]
  /\ EndCycle(t)
  /\ UNCHANGED <<now, feeds, store, rescoreVars, schedVars, req>>

\* ------------------------------------------------------------------------
\* recategorize_existing
\* ------------------------------------------------------------------------
RecatList ==
  /\ pc[Bot] = "rc_list"
  /\ rc_list' = [i \in DOMAIN store |->
                   [id |-> store[i].id, title |-> store[i].title,
                    summary |-> store[i].summary]]
  /\ pc' = [pc EXCEPT ![Bot] = "rc_loop"]
  /\ UNCHANGED <<now, feeds, store, scrapeLocals, log, primed, rs_list, rs_log,
                 schedVars, req>>

\* an exception leaves the function and, uncaught, the main program
BotRaises(at) ==
  /\ pc' = [pc EXCEPT ![Bot] = at]
  /\ sched' = "crashed"
  /\ UNCHANGED <<cur_job, queue, next_run, wake>>

RecatListFails ==
  /\ pc[Bot] = "rc_list"
  /\ BotRaises("rc_raised")
  /\ UNCHANGED <<now, feeds, store, scrapeLocals, log, primed, rescoreVars, req>>

RecatArticle ==
  /\ pc[Bot] = "rc_loop"
  /\ rc_list /= <<>>
  /\ LET art == Head(rc_list)
         new_cat == categorize_article(art.title, art.summary)
     IN store' = [i \in DOMAIN store |->
                    IF store[i].id = art.id
                    THEN [store[i] EXCEPT !.category = new_cat]
                    ELSE store[i]]
  /\ rc_list' = Tail(rc_list)
  /\ UNCHANGED <<now, feeds, pc, scrapeLocals, log, primed, rs_list, rs_log,
                 schedVars, req>>

RecatArticleFails ==
  /\ pc[Bot] = "rc_loop"
  /\ rc_list /= <<>>
  /\ BotRaises("rc_raised")
  /\ UNCHANGED <<now, feeds, store, scrapeLocals, log, primed, rescoreVars, req>>

\* ------------------------------------------------------------------------
\* update_trending_scores
\* ------------------------------------------------------------------------
\* line 317: the listing
RescoreList ==
  /\ pc[Bot] = "rs_list"
  /\ rs_list' = [i \in DOMAIN store |->
                   [id |-> store[i].id, views |-> store[i].views,
                    shares |-> store[i].shares,
                    published_at |-> store[i].published_at]]
  /\ rs_log' = [EmptyRsLog EXCEPT !.listed = { store[i].id : i \in DOMAIN store }]
  /\ pc' = [pc EXCEPT ![Bot] = "rs_loop"]
  /\ UNCHANGED <<now, feeds, store, scrapeLocals, log, primed, rc_list, schedVars, req>>

\* line 317 raises: it stands before the try of line 319
RescoreListFails ==
  /\ pc[Bot] = "rs_list"
  /\ BotRaises("rs_raised")
  /\ UNCHANGED <<now, feeds, store, scrapeLocals, log, primed, rescoreVars, req>>

\* update({"trending_score": score}).eq("id", id)
WriteScore(id, score) ==
  [i \in DOMAIN store |->
     IF store[i].id = id THEN [store[i] EXCEPT !.trending_score = score]
     ELSE store[i]]

\* a rescoring step that writes the listed row back, counters included
RescoreArticleWritesRow ==
  /\ pc[Bot] = "rs_loop"
  /\ rs_list /= <<>>
  /\ LET art == Head(rs_list)
     IN /\ art.published_at /= <<>>
        /\ store' = [i \in DOMAIN store |->
                       IF store[i].id = art.id
                       THEN [store[i] EXCEPT
                               !.views = art.views,
                               !.shares = art.shares,
                               !.trending_score =
                                 trending_score(art.views, art.shares,
                                                hours_old(now, art.published_at[1]))]
                       ELSE store[i]]
        /\ rs_log' = [rs_log EXCEPT !.written = @ \cup {art.id}]
  /\ rs_list' = Tail(rs_list)
  /\ UNCHANGED <<now, feeds, pc, scrapeLocals, log, primed, rc_list, schedVars, req>>

\* line 320-325: one article rescored
RescoreArticle ==
  /\ pc[Bot] = "rs_loop"
  /\ rs_list /= <<>>
  /\ LET art == Head(rs_list)
     IN /\ art.published_at /= <<>>
        /\ store' = WriteScore(art.id,
                      trending_score(art.views, art.shares,
                                     hours_old(now, art.published_at[1])))
        /\ rs_log' = [rs_log EXCEPT !.written = @ \cup {art.id}]
  /\ rs_list' = Tail(rs_list)
  /\ UNCHANGED <<now, feeds, pc, scrapeLocals, log, primed, rc_list, schedVars, req>>

\* a failure that ends the loop over the listed articles
SkipArticleAborts ==
  /\ rs_log' = [rs_log EXCEPT !.failed = @ \cup {Head(rs_list).id}]
  /\ rs_list' = <<>>
  /\ UNCHANGED pc

\* the except of line 326: this article is skipped, the loop goes on
SkipArticle ==
  /\ rs_log' = [rs_log EXCEPT !.failed = @ \cup {Head(rs_list).id}]
  /\ rs_list' = Tail(rs_list)
  /\ UNCHANGED pc

\* line 320: fromisoformat rejects the stored published_at
RescoreMalformed ==
  /\ pc[Bot] = "rs_loop"
  /\ rs_list /= <<>>
  /\ Head(rs_list).published_at = <<>>
  /\ SkipArticle
  /\ UNCHANGED <<now, feeds, store, scrapeLocals, log, primed, rc_list, schedVars, req>>

\* line 325: the update raises
RescoreWriteFails ==
  /\ pc[Bot] = "rs_loop"
  /\ rs_list /= <<>>
  /\ Head(rs_list).published_at /= <<>>
  /\ SkipArticle
  /\ UNCHANGED <<now, feeds, store, scrapeLocals, log, primed, rc_list, schedVars, req>>

\* "Trending scores updated." was logged
RescoreComplete == pc[Bot] = "rs_loop" /\ rs_list = <<>>

\* ------------------------------------------------------------------------
\* The bot's main program (rss_scraper.py, line 333-344)
\* ------------------------------------------------------------------------
\* line 335
Boot ==
  /\ sched = "start"
  /\ sched' = "boot_scrape"
  /\ BeginScrape(Bot)
  /\ UNCHANGED <<now, feeds, store, primed, rescoreVars, cur_job, queue, next_run,
                 wake, req>>

\* line 336
BootRecategorize ==
  /\ sched = "boot_scrape"
  /\ pc[Bot] = "done"
  /\ sched' = "boot_recat"
  /\ pc' = [pc EXCEPT ![Bot] = "rc_list"]
  /\ EndCycle(Bot)
  /\ UNCHANGED <<now, feeds, store, rescoreVars, cur_job, queue, next_run, wake, req>>

\* line 337
BootRescore ==
  /\ sched = "boot_recat"
  /\ pc[Bot] = "rc_loop"
  /\ rc_list = <<>>
  /\ sched' = "boot_rescore"
  /\ pc' = [pc EXCEPT ![Bot] = "rs_list"]
  /\ UNCHANGED <<now, feeds, store, scrapeLocals, log, primed, rescoreVars, cur_job,
                 queue, next_run, wake, req>>

Interval(job) == IF job = "ingest" THEN INGEST_EVERY ELSE RESCORE_EVERY

\* line 339-340: every(..).do(..) sets next_run = now + interval
Register ==
  /\ sched = "boot_rescore"
  /\ RescoreComplete
  /\ next_run' = [j \in {"ingest", "rescore"} |-> <<now + Interval(j)>>]
  /\ sched' = "poll"
  /\ pc' = [pc EXCEPT ![Bot] = "idle"]
  /\ rs_log' = EmptyRsLog
  /\ UNCHANGED <<now, feeds, store, scrapeLocals, log, primed, rc_list, rs_list,
                 cur_job, queue, wake, req>>

should_run(job) == next_run[job] /= <<>> /\ now >= next_run[job][1]

\* sorted(job for job in jobs if job.should_run): by next_run, stable
Runnable ==
  LET i == should_run("ingest")
      r == should_run("rescore")
  IN IF i /\ r
     THEN IF next_run["rescore"][1] < next_run["ingest"][1]
          THEN <<"rescore", "ingest">> ELSE <<"ingest", "rescore">>
     ELSE IF i THEN <<"ingest">>
     ELSE IF r THEN <<"rescore">>
     ELSE <<>>

\* line 343: run_pending collects the runnable jobs
RunPending ==
  /\ sched = "poll"
  /\ queue' = Runnable
  /\ sched' = "run"
  /\ UNCHANGED <<now, feeds, store, pc, scrapeLocals, log, primed, rescoreVars,
                 cur_job, next_run, wake, req>>

\* run_pending calls the next runnable job, in the loop's own thread
RunJob ==
  /\ sched = "run"
  /\ pc[Bot] = "idle"
  /\ queue /= <<>>
  /\ cur_job' = Head(queue)
  /\ queue' = Tail(queue)
  /\ IF Head(queue) = "ingest"
     THEN BeginScrape(Bot)
     ELSE /\ pc' = [pc EXCEPT ![Bot] = "rs_list"]
          /\ UNCHANGED <<scrapeLocals, log>>
  /\ UNCHANGED <<now, feeds, store, primed, rescoreVars, sched, next_run, wake, req>>

\* a schedule that keeps every tick: the next run is one interval after the
\* run that was due
NextRunQueued(job) == next_run[job][1] + Interval(job)

\* Job.run after the job function returned: next_run = now + interval
NextRunAfter(job) == now + Interval(job)

JobReturns ==
  /\ sched = "run"
  /\ cur_job /= NONE
  /\ \/ /\ cur_job = "ingest"
        /\ pc[Bot] = "done"
        /\ EndCycle(Bot)
        /\ UNCHANGED rs_log
     \/ /\ cur_job = "rescore"
        /\ RescoreComplete
        /\ rs_log' = EmptyRsLog
        /\ UNCHANGED <<scrapeLocals, log, primed>>
  /\ next_run' = [next_run EXCEPT ![cur_job] = <<NextRunAfter(cur_job)>>]
  /\ cur_job' = NONE
  /\ pc' = [pc EXCEPT ![Bot] = "idle"]
  /\ UNCHANGED <<now, feeds, store, rc_list, rs_list, sched, queue, wake, req>>

\* line 344: time.sleep(30)
GoSleep ==
  /\ sched = "run"
  /\ pc[Bot] = "idle"
  /\ queue = <<>>
  /\ sched' = "sleep"
  /\ wake' = now + SLEEP_SECS
  /\ UNCHANGED <<now, feeds, store, pc, scrapeLocals, log, primed, rescoreVars,
                 cur_job, queue, next_run, req>>

WakeUp ==
  /\ sched = "sleep"
  /\ now >= wake
  /\ sched' = "poll"
  /\ UNCHANGED <<now, feeds, store, pc, scrapeLocals, log, primed, rescoreVars,
                 cur_job, queue, next_run, wake, req>>

\* the clock moves while the bot waits: in time.sleep, on a source, or on the
\* listing a job begins with; it stops with the process
Waiting ==
  \/ sched = "sleep" /\ now < wake
  \/ sched /= "crashed" /\ pc[Bot] \in {"fetch", "hung", "rc_list", "rs_list"}

\* resolution of the clock: every duration is a multiple of it
ClockStep == INGEST_EVERY

Tick ==
  /\ Waiting
  /\ now + ClockStep <= MaxNow
  /\ now' = now + ClockStep
  /\ UNCHANGED <<feeds, store, pc, scrapeLocals, log, primed, rescoreVars,
                 schedVars, req>>

\* ------------------------------------------------------------------------
\* The facade (main.py): GET /api/articles/{id}, POST /api/articles/{id}/share
\* ------------------------------------------------------------------------
\* line 63 / line 73: the row is read
FacadeRead(r, kind, id) ==
  /\ req[r].pc = "new"
  /\ id \in DOMAIN store
  /\ req' = [req EXCEPT ![r] =
               [pc |-> kind, id |-> id,
                val |-> IF kind = "view" THEN store[id].views ELSE store[id].shares]]
  /\ UNCHANGED <<now, feeds, store, pc, scrapeLocals, log, primed, rescoreVars,
                 schedVars>>

\* line 67: update({"views": result.data["views"] + 1})
get_article(r) ==
  /\ req[r].pc = "view"
  /\ store' = [store EXCEPT ![req[r].id].views = req[r].val + 1]
  /\ req' = [req EXCEPT ![r].pc = "viewed"]
  /\ UNCHANGED <<now, feeds, pc, scrapeLocals, log, primed, rescoreVars, schedVars>>

\* line 76: update({"shares": result.data["shares"] + 1})
share_article(r) ==
  /\ req[r].pc = "share"
  /\ store' = [store EXCEPT ![req[r].id].shares = req[r].val + 1]
  /\ req' = [req EXCEPT ![r].pc = "shared"]
  /\ UNCHANGED <<now, feeds, pc, scrapeLocals, log, primed, rescoreVars, schedVars>>

\* ------------------------------------------------------------------------
\* Specifications
\* ------------------------------------------------------------------------
\* what the sources serve when the bot starts: a story that two sources
\* carry under different spellings, a source with two stories, and an entry
\* without a title
FeedsAtStart ==
  [s \in Sources |-> IF s = 1 THEN <<E_npp, E_tax>>
                     ELSE IF s = 2 THEN <<E_blank, E_NPP>>
                     ELSE <<E_NPP>>]

\* one step of scrape_all_feeds run by process p
ScrapeStep(p) ==
  \/ FetchOk(p)
  \/ FetchFails(p)
  \/ FetchHangs(p)
  \/ SkipUntitled(p)
  \/ LookupFound(p)
  \/ LookupMissing(p)
  \/ LookupFails(p)
  \/ InsertOk(p)
  \/ InsertFails(p)

\* one step of the start-up sequence of the bot after its first scrape
BootStep ==
  \/ Boot
  \/ BootRecategorize
  \/ RecatList
  \/ RecatListFails
  \/ RecatArticle
  \/ RecatArticleFails
  \/ BootRescore
  \/ RescoreList
  \/ RescoreListFails
  \/ RescoreArticle
  \/ RescoreMalformed
  \/ RescoreWriteFails
  \/ Register

\* Spec: the bot starting up while scrapes are triggered through the facade.
Init ==
  /\ InitCommon
  /\ feeds = FeedsAtStart
  /\ store \in {<<>>, <<LegacyArticle>>}

Next ==
  \/ \E p \in Procs : ScrapeStep(p)
  \/ \E t \in ApiThreads : RunScrape(t)
  \/ \E t \in ApiThreads : ThreadExits(t)
  \/ BootStep

Spec == Init /\ [][Next]_vars

\* SpecSeq: ingestion cycles run one at a time, over sources whose
\* documents change.  A cycle reads each source once, so a change during a
\* cycle acts on it as a change just before or just after it: the changes
\* are taken between the cycles.
NoCycleRunning == \A p \in Procs : pc[p] \notin ScrapePcs \cup {"done"}

InitSeq ==
  /\ InitCommon
  /\ feeds \in [Sources -> FeedDocs]
  /\ store \in {<<>>, <<LegacyArticle>>}

NextSeq ==
  \/ \E t \in ApiThreads : ScrapeStep(t)
  \/ \E t \in ApiThreads : NoCycleRunning /\ RunScrape(t)
  \/ \E t \in ApiThreads : ThreadExits(t)
  \/ \E s \in Sources : NoCycleRunning /\ FeedChange(s)

SpecSeq == InitSeq /\ [][NextSeq]_vars

\* SpecFacade: the bot starting up while readers view and share articles.
InitFacade ==
  /\ InitCommon
  /\ feeds = FeedsAtStart
  /\ store = <<LegacyArticle>>

NextFacade ==
  \/ ScrapeStep(Bot)
  \/ BootStep
  \/ \E r \in Reqs, id \in 1..MaxArticles : FacadeRead(r, "view", id)
  \/ \E r \in Reqs, id \in 1..MaxArticles : FacadeRead(r, "share", id)
  \/ \E r \in Reqs : get_article(r)
  \/ \E r \in Reqs : share_article(r)

SpecFacade == InitFacade /\ [][NextFacade]_vars

\* SpecSched: the bot alone, with the clock: start-up, then the timed loop.
InitSched ==
  /\ InitCommon
  /\ feeds = [s \in Sources |-> IF s = 1 THEN <<E_blank, E_NPP>> ELSE <<>>]
  /\ store = <<LegacyArticle>>

NextSched ==
  \/ ScrapeStep(Bot)
  \/ BootStep
  \/ RunPending
  \/ RunJob
  \/ JobReturns
  \/ GoSleep
  \/ WakeUp
  \/ Tick

SpecSched == InitSched /\ [][NextSched]_vars

\* SpecIngest: the start-up sequence of the bot (line 335-340) with no
\* failure, over the texts and attachments the sources may serve.
InitIngest ==
  /\ InitCommon
  /\ \E a \in TextDocs, b \in MediaDocs :
       feeds = [s \in Sources |-> IF s = 1 THEN a ELSE IF s = 2 THEN b ELSE <<>>]
  /\ store = <<ViewedArticle>>

NextIngest ==
  \/ Boot
  \/ FetchOk(Bot)
  \/ SkipUntitled(Bot)
  \/ LookupFound(Bot)
  \/ LookupMissing(Bot)
  \/ InsertOk(Bot)
  \/ BootRecategorize
  \/ RecatList
  \/ RecatArticle
  \/ BootRescore
  \/ RescoreList
  \/ RescoreArticle
  \/ Register

SpecIngest == InitIngest /\ [][NextIngest]_vars

\* SpecLive: the timed loop of the bot (line 339-344) from its start-up on,
\* with failures of the sources and of the store that are transient: none
\* occurs from FaultsUntil on.  No fetch hangs, a cycle takes less than one
\* step of the clock, and the thread of the loop keeps running (LoopStep).
FaultsUntil == MaxNow - INGEST_EVERY

TransientFault == now < FaultsUntil

NextLive ==
  \/ FetchOk(Bot)
  \/ TransientFault /\ FetchFails(Bot)
  \/ SkipUntitled(Bot)
  \/ LookupFound(Bot)
  \/ LookupMissing(Bot)
  \/ TransientFault /\ LookupFails(Bot)
  \/ InsertOk(Bot)
  \/ TransientFault /\ InsertFails(Bot)
  \/ Boot
  \/ BootRecategorize
  \/ RecatList
  \/ TransientFault /\ RecatListFails
  \/ RecatArticle
  \/ TransientFault /\ RecatArticleFails
  \/ BootRescore
  \/ RescoreList
  \/ TransientFault /\ RescoreListFails
  \/ RescoreArticle
  \/ RescoreMalformed
  \/ TransientFault /\ RescoreWriteFails
  \/ Register
  \/ RunPending
  \/ RunJob
  \/ JobReturns
  \/ GoSleep
  \/ WakeUp
  \/ sched = "sleep" /\ Tick

\* the call the loop's thread is in returns, with its result or with an
\* exception; the sleep ends
LoopStep ==
  \/ FetchOk(Bot)
  \/ FetchFails(Bot)
  \/ SkipUntitled(Bot)
  \/ LookupFound(Bot)
  \/ LookupMissing(Bot)
  \/ LookupFails(Bot)
  \/ InsertFails(Bot)
  \/ Boot
  \/ BootRecategorize
  \/ RecatList
  \/ RecatListFails
  \/ RecatArticleFails
  \/ BootRescore
  \/ RescoreList
  \/ RescoreListFails
  \/ RescoreArticle
  \/ RescoreMalformed
  \/ RescoreWriteFails
  \/ Register
  \/ RunPending
  \/ RunJob
  \/ JobReturns
  \/ GoSleep
  \/ WakeUp
  \/ sched = "sleep" /\ Tick
  \/ RecatArticle
  \/ InsertOk(Bot)

SpecLive == InitSched /\ [][NextLive]_vars /\ WF_vars(LoopStep)

\* ------------------------------------------------------------------------
\* Properties
\* ------------------------------------------------------------------------
Normalized(title) == lower(strip(title))

\* C1 (SpecSeq): when ingestion cycles run one at a time, no two stored
\* articles have titles that are equal after trimming and lower-casing, and
\* no two stored articles share a title_hash.
C1_UniqueTitleHash ==
  \A i, j \in DOMAIN store :
    i /= j => /\ store[i].title_hash /= store[j].title_hash
              /\ Normalized(store[i].title) /= Normalized(store[j].title)

\* a cycle has completed in which a source served a different spelling of
\* the title of a stored article
C1_Witness ==
  \E p \in Procs, s \in Sources, i \in DOMAIN store :
    /\ pc[p] = "done"
    /\ Len(store) >= 2
    /\ <<s, store[i].title_hash>> \in log[p].owed
    /\ \E k \in DOMAIN feeds[s] :
         /\ strip(feeds[s][k].title) /= store[i].title
         /\ Normalized(feeds[s][k].title) = Normalized(store[i].title)

\* C2 (SpecSeq): when a cycle completes, every source was attempted, every
\* titled entry within the cap of a source that was fetched and had no store
\* fault is in the store, and nothing was inserted from a source whose fetch
\* failed.
C2_SourceIsolation ==
  \A p \in Procs :
    pc[p] = "done" =>
      /\ log[p].attempted = Sources
      /\ \A o \in log[p].owed :
           o[1] \notin { f[1] : f \in log[p].faulted } => o[2] \in StoredHashes
      /\ \A i \in log[p].put : i[1] \notin log[p].failed

\* a cycle has completed in which the fetch of one source failed and an
\* entry of a later source was inserted
C2_Witness ==
  \E p \in Procs :
    /\ pc[p] = "done"
    /\ \E f \in log[p].failed, i \in log[p].put : f < i[1]

\* C3 (SpecSched): a fault inside a job fired by the loop never ends the
\* main program.
C3_JobFaultsAreCaught == ~(sched = "crashed" /\ cur_job /= NONE)

\* C4 (Spec): when a cycle completes, every titled entry within the cap of a
\* fetched source is in the store, except the entries on which a store call
\* raised.
C4_EntryIsolation ==
  \A p \in Procs :
    pc[p] = "done" =>
      \A o \in log[p].owed \ log[p].faulted : o[2] \in StoredHashes

\* C5 (Spec): at no time are two executions of scrape_all_feeds in progress.
C5_NoConcurrentCycles ==
  Cardinality({ p \in Procs : pc[p] \in ScrapePcs }) <= 1

\* C6 (SpecSched): a job that is overdue is never kept waiting by the body of
\* the other job.
C6_JobsTickIndependently ==
  \A j \in {"ingest", "rescore"} :
    (should_run(j) /\ now > next_run[j][1]) =>
      ~(sched = "run" /\ cur_job \notin {NONE, j} /\ pc[Bot] /= "idle")

\* C7 (Spec): no cycle is ever blocked in a fetch that does not return.
C7_FetchIsBounded == \A p \in Procs : pc[p] /= "hung"

\* C8 (SpecSeq): a cycle that follows a failure-free cycle, with every source
\* serving the same document as then, inserts nothing and leaves the store
\* with the articles it had.
C8_SecondRunInsertsNothing ==
  \A p \in Procs :
    (pc[p] = "done" /\ log[p].primedAtStart /\ log[p].failed = {}) =>
      /\ new_count[p] = 0
      /\ Len(store) = log[p].startLen

\* a second cycle over unchanged sources has completed, and the sources
\* serve titled entries
C8_Witness ==
  \E p \in Procs :
    /\ pc[p] = "done"
    /\ log[p].primedAtStart
    /\ log[p].failed = {}
    /\ Cardinality(log[p].owed) >= 2
    /\ Len(store) >= 2

\* a step of the rescoring cycle
RescoreStep ==
  /\ pc[Bot] \in {"rs_list", "rs_loop"}
  /\ \/ rs_list' /= rs_list
     \/ rs_log' /= rs_log
     \/ pc'[Bot] /= pc[Bot]

OnlyScoresChange ==
  /\ Len(store') = Len(store)
  /\ \A i \in DOMAIN store :
       [store'[i] EXCEPT !.trending_score = store[i].trending_score] = store[i]

\* C9 (SpecFacade): a step of the rescoring cycle inserts and deletes no
\* article and changes no field of an article but trending_score.
C9_RescoreWritesScoreOnly == [][RescoreStep => OnlyScoresChange]_vars

\* the rescoring cycle has written the score of an article after a reader
\* raised its views, and a facade request is in flight
C9_Witness ==
  /\ pc[Bot] = "rs_loop"
  /\ \E i \in DOMAIN store :
       /\ store[i].id \in rs_log.written
       /\ store[i].views > 0
       /\ store[i].trending_score >= 60
  /\ \E r \in Reqs : req[r].pc \in {"view", "share"}

\* C10 (SpecFacade): when a rescoring cycle completes, the score of every
\* listed article was written, except the articles whose step raised.
C10_RescoreSkipsOnlyFailures ==
  RescoreComplete => (rs_log.listed \ rs_log.failed) \subseteq rs_log.written

\* a rescoring cycle has completed in which one article failed and an
\* article listed after it was written
C10_Witness ==
  /\ RescoreComplete
  /\ \E f \in rs_log.failed, w \in rs_log.written : f < w

\* the text the categoriser and the affiliate tagging see for a stored row
ArticleText(a) == lower(a.title \o <<" ">> \o a.summary)

Categories == { CategoryOrder[i] : i \in DOMAIN CategoryOrder }

\* the largest of the seven category scores of a text
MaxScore(text) ==
  CHOOSE m \in { category_score(c, text) : c \in Categories } :
    \A c \in Categories : category_score(c, text) <= m

\* C11 (SpecIngest): the category of every stored article is one of the seven
\* categories or general; it is general exactly when the largest category
\* score of its text is below 2, and otherwise the score of its category is
\* the largest score.
C11_CategoryIsMaxOrGeneral ==
  \A i \in DOMAIN store :
    LET text == ArticleText(store[i])
        cat == store[i].category
    IN /\ cat \in Categories \cup {"general"}
       /\ (cat = "general") <=> (MaxScore(text) < 2)
       /\ cat /= "general" => category_score(cat, text) = MaxScore(text)

\* recategorisation has run over a row whose only keyword is the weak tech
\* keyword "digital" and a row with the two strong politics keywords
C11_Witness ==
  /\ pc[Bot] = "rc_loop"
  /\ rc_list = <<>>
  /\ \E i, j \in DOMAIN store :
       /\ store[i].title = <<"d","i","g","i","t","a","l">>
       /\ category_score("tech", ArticleText(store[i])) = 1
       /\ MaxScore(ArticleText(store[i])) = 1
       /\ store[i].category = "general"
       /\ store[j].title = E_election.title
       /\ category_score("politics", ArticleText(store[j])) = 6
       /\ store[j].category = "politics"

\* position of a category in the declared order
Rank(c) == CHOOSE i \in DOMAIN CategoryOrder : CategoryOrder[i] = c

\* C12 (SpecIngest): when the largest score of the text of a stored article is
\* 2 or more, its category is the first in the order politics, business,
\* sports, tech, health, entertainment, world among those with the largest
\* score, at ingestion and after recategorisation alike; two rows with the
\* same title and summary have the same category.
C12_TieGoesToFirstDeclared ==
  /\ \A i \in DOMAIN store :
       LET text == ArticleText(store[i])
           cat == store[i].category
       IN MaxScore(text) >= 2 =>
            /\ cat \in Categories
            /\ \A c \in Categories :
                 category_score(c, text) = MaxScore(text) => Rank(cat) <= Rank(c)
  /\ \A i, j \in DOMAIN store :
       (store[i].title = store[j].title /\ store[i].summary = store[j].summary)
         => store[i].category = store[j].category

\* recategorisation has run over a row whose text scores 3 for health and 3
\* for entertainment, and nothing higher
C12_Witness ==
  /\ pc[Bot] = "rc_loop"
  /\ rc_list = <<>>
  /\ \E i \in DOMAIN store :
       /\ store[i].title = E_tie.title
       /\ category_score("health", ArticleText(store[i])) = 3
       /\ category_score("entertainment", ArticleText(store[i])) = 3
       /\ MaxScore(ArticleText(store[i])) = 3
       /\ store[i].category = "health"

\* C13 (SpecIngest): the score of every article ingested or rescored is, in
\* hundredths, 60*views + 30*shares + 1000 \div max(h, 10), with h the
\* hundredths of an hour elapsed since published_at, at least 1.
C13_ScoreFollowsFormula ==
  \A i \in DOMAIN store :
    (store[i].id /= ViewedArticle.id \/ store[i].id \in rs_log.written) =>
      LET elapsed == ((now - store[i].published_at[1]) * 100) \div 3600
          h == IF elapsed < 1 THEN 1 ELSE elapsed
      IN store[i].trending_score =
           60 * store[i].views + 30 * store[i].shares
             + 1000 \div (IF h < 10 THEN 10 ELSE h)

\* the rescoring has written 63.02 for the row with 100 views, 10 shares and
\* an age of 5 hours, and 1.0 for a row just published with no views
C13_Witness ==
  /\ pc[Bot] = "rs_loop"
  /\ \E i, j \in DOMAIN store :
       /\ store[i].id \in rs_log.written
       /\ store[i].views = 100 /\ store[i].shares = 10
       /\ now - store[i].published_at[1] = 5 * 3600
       /\ store[i].trending_score = 6302
       /\ store[j].id \in rs_log.written
       /\ store[j].views = 0 /\ store[j].shares = 0
       /\ store[j].published_at = <<now>>
       /\ store[j].trending_score = 100

\* the attachments of an entry in order, media content before enclosures,
\* each with its media type and the URL it yields
Attachments(e) ==
  [i \in DOMAIN e.media_content |->
     [type |-> e.media_content[i].type, url |-> e.media_content[i].url]]
  \o [i \in DOMAIN e.enclosures |->
        [type |-> e.enclosures[i].type,
         url |-> OrElse(e.enclosures[i].href, e.enclosures[i].url)]]

\* the first source that yields a URL: an attachment whose media type
\* indicates an image, then the first img element of the summary
ImageByRule(e) ==
  LET att == Attachments(e)
      ok == { i \in DOMAIN att :
                /\ Contains(<<"i","m","a","g","e">>, att[i].type)
                /\ att[i].url /= <<>>
                /\ att[i].url[1] /= <<>> }
      src == first_img_src(e.summary)
  IN IF ok /= {} THEN att[CHOOSE i \in ok : \A j \in ok : i <= j].url
     ELSE IF src /= <<>> /\ src[1] /= <<>> THEN src
     ELSE <<>>

\* C14 (SpecIngest): the image_url of every article ingested is the URL of
\* the first attachment of its entry whose media type indicates an image, or
\* else the src of the first img element of its summary, and is absent only
\* when neither yields a URL.
C14_ImageFromFirstImageSource ==
  \A i \in DOMAIN store, s \in Sources :
    \A k \in 1..Len(Take(feeds[s], ENTRY_CAP)) :
      ( /\ store[i].id /= ViewedArticle.id
        /\ store[i].source = RSS_FEEDS[s].name
        /\ store[i].title_hash = title_hash(feeds[s][k].title) )
      => store[i].image_url = ImageByRule(feeds[s][k])

\* C15 (SpecSched): the step in which a job's cycle completes leaves the job
\* due a whole interval after the completion, however many of its intervals
\* the cycle overran: the ticks missed meanwhile fire no cycle of their own.
C15_MissedTicksCoalesced ==
  [][\A j \in {"ingest", "rescore"} :
       (cur_job = j /\ cur_job' = NONE) =>
         /\ next_run'[j] /= <<>>
         /\ next_run'[j][1] >= now' + Interval(j)]_vars

\* an ingestion cycle, begun when the loop woke from the sleep that was to end
\* at `wake`, has completed two or more of its intervals later, and the
\* rescoring job did not run in between
C15_Witness ==
  /\ sched = "run"
  /\ cur_job = NONE
  /\ pc[Bot] = "idle"
  /\ next_run["ingest"] = <<now + INGEST_EVERY>>
  /\ now >= wake + 2 * INGEST_EVERY
  /\ next_run["rescore"][1] - RESCORE_EVERY < wake

\* C16 (SpecIngest): a cycle has at most 20 entries of a source under
\* consideration and inserts at most 20 articles per source, and every
\* article ingested has the title_hash of one of the first 20 entries of its
\* source: an entry at position 21 or later is never inserted.
C16_OnlyFirstTwentyConsidered ==
  /\ \A p \in Procs :
       /\ Len(entries[p]) <= 20
       /\ \A s \in Sources : Cardinality({ i \in log[p].put : i[1] = s }) <= 20
       /\ \A i \in log[p].put :
            \E k \in 1..20 :
              /\ k <= Len(feeds[i[1]])
              /\ title_hash(feeds[i[1]][k].title) = i[2]
  /\ \A i \in DOMAIN store :
       store[i].id /= ViewedArticle.id =>
         \E s \in Sources, k \in 1..20 :
           /\ k <= Len(feeds[s])
           /\ store[i].source = RSS_FEEDS[s].name
           /\ title_hash(feeds[s][k].title) = store[i].title_hash

\* a cycle has completed over a source that serves 21 entries: the first was
\* inserted, untitled entries and a duplicate among the first 20 were
\* discarded, and the entry at position 21 is not in the store
C16_Witness ==
  /\ pc[Bot] = "done"
  /\ \E s \in Sources :
       /\ Len(feeds[s]) = 21
       /\ <<s, title_hash(feeds[s][1].title)>> \in log[Bot].put
       /\ strip(feeds[s][2].title) = <<>>
       /\ title_hash(feeds[s][20].title) = title_hash(feeds[s][1].title)
       /\ strip(feeds[s][21].title) /= <<>>
       /\ title_hash(feeds[s][21].title) \notin StoredHashes

\* a step of an ingestion cycle
IngestStep ==
  \E p \in Procs :
    /\ pc[p] \in ScrapePcs
    /\ \/ pc'[p] /= pc[p]
       \/ entries'[p] /= entries[p]
       \/ feed_idx'[p] /= feed_idx[p]

OnlyAppends ==
  /\ Len(store') >= Len(store)
  /\ \A i \in DOMAIN store : store'[i] = store[i]
  /\ \A i \in DOMAIN store' \ DOMAIN store :
       store'[i].views = 0 /\ store'[i].shares = 0

\* C17 (SpecFacade): a step of an ingestion cycle deletes no article, leaves
\* every field of every stored article as it was, and creates articles with
\* views = 0 and shares = 0 only.
C17_IngestOnlyAppends == [][IngestStep => OnlyAppends]_vars

\* a cycle has completed that inserted an article beside a stored article
\* which readers have viewed
C17_Witness ==
  /\ pc[Bot] = "done"
  /\ \E i, j \in DOMAIN store :
       /\ store[i].id = LegacyArticle.id
       /\ store[i].views > 0
       /\ <<1, store[j].title_hash>> \in log[Bot].put
       /\ store[j].views = 0
       /\ store[j].shares = 0

\* the configured triggers that occur in a lower-cased text
TriggersIn(text) ==
  { AFFILIATE_TRIGGERS[k].trigger :
      k \in { j \in DOMAIN AFFILIATE_TRIGGERS :
                Contains(AFFILIATE_TRIGGERS[j].trigger, text) } }

\* C18 (SpecIngest): the affiliates of every stored article hold exactly one
\* item per configured trigger that occurs in its lower-cased title and
\* summary, with the URL configured for that trigger, and nothing else.
C18_AffiliatesAreMatchingTriggers ==
  \A i \in DOMAIN store :
    LET aff == store[i].affiliates
    IN /\ { a[1] : a \in aff } = TriggersIn(ArticleText(store[i]))
       /\ Cardinality(aff) = Cardinality(TriggersIn(ArticleText(store[i])))
       /\ \A a \in aff :
            /\ a[2] /= ""
            /\ \E k \in DOMAIN AFFILIATE_TRIGGERS :
                 a = <<AFFILIATE_TRIGGERS[k].trigger, AFFILIATE_TRIGGERS[k].url>>

\* "iPhone 15 launch" was ingested with the iphone trigger alone, "Samsung
\* laptop" with two triggers, beside a row that matches no trigger
C18_Witness ==
  \E i, j, k \in DOMAIN store :
    /\ store[i].title = E_iphone.title
    /\ store[i].affiliates =
         { << <<"i","p","h","o","n","e">>, "https://amzn.to/ghana-iphone" >> }
    /\ store[j].title = E_samsung.title
    /\ Cardinality(store[j].affiliates) = 2
    /\ store[k].affiliates = {}

\* the distinct keywords of a list
Keywords(list) == { list[i] : i \in DOMAIN list }

\* the score of a category when each distinct keyword that occurs in the text
\* counts once: 3 if it is a strong keyword, 1 if it is a weak keyword
PresenceScore(category, text) ==
  LET strong == Keywords(CATEGORIES[category].strong)
      weak == Keywords(CATEGORIES[category].weak) \ strong
  IN 3 * Cardinality({ kw \in strong : Contains(kw, text) })
     + Cardinality({ kw \in weak : Contains(kw, text) })

\* C19 (SpecIngest): for every category and the text of every stored article,
\* the score the categoriser computes is the sum, over the distinct keywords
\* of the category that occur in the text, of 3 for a strong and 1 for a weak
\* keyword.
C19_KeywordCountsOnce ==
  \A i \in DOMAIN store, c \in Categories :
    category_score(c, ArticleText(store[i])) = PresenceScore(c, ArticleText(store[i]))

\* the keys of the titled entries the sources serve within the cap
Owed ==
  UNION { OwedBy(s, Take(feeds[s], ENTRY_CAP)) : s \in Sources }

\* a cycle fired by the loop has skipped a source or an entry on a failure
CycleSkipped ==
  /\ cur_job = "ingest"
  /\ log[Bot].failed /= {} \/ log[Bot].faulted /= {}

\* C20 (SpecLive): after a cycle fired by the loop has skipped a source or an
\* entry on a failure, every titled entry the sources serve within the cap
\* is eventually in the store.
C20_SkippedEntriesAreRetried ==
  CycleSkipped ~> (\A o \in Owed : o[2] \in StoredHashes)

\* the requests of a kind that have completed for an article
Completed(kind, id) == { r \in Reqs : req[r].pc = kind /\ req[r].id = id }

\* C21 (SpecFacade): the views of every stored article equal the number of
\* completed GET /api/articles/{id} requests for it, and its shares the
\* number of completed POST /api/articles/{id}/share requests (every article
\* starts with both counters at zero).
C21_CountersLoseNoUpdate ==
  \A i \in DOMAIN store :
    /\ store[i].views = Cardinality(Completed("viewed", store[i].id))
    /\ store[i].shares = Cardinality(Completed("shared", store[i].id))

====
